---------------------------- MODULE Spec2Model ----------------------------
(***************************************************************************)
(* Ultrasonic distance meter under FreeRTOS (src/main/main.c).             *)
(*                                                                         *)
(* One interrupt handler (echo_pin_callback) and three tasks of equal     *)
(* priority (trigger_task, echo_task, oled_task) share two queues of      *)
(* length 10 and one binary semaphore.                                     *)
(*                                                                         *)
(* Time.  Two time bases appear in the source and no statement compares   *)
(* one with the other, so they are kept apart:                             *)
(*   - the 64-bit microsecond counter read by the interrupt handler       *)
(*     (variable clock).  The model follows it in a window that contains  *)
(*     its wrap: an integer t >= 0 stands for the counter value t and     *)
(*     t < 0 stands for 2^64 + t.  Differences of two values of the       *)
(*     window are exact modulo 2^64;                                       *)
(*   - the scheduler tick (1 ms), which drives vTaskDelay and the bounded *)
(*     waits.  It is kept as the remaining ticks of each blocked task.    *)
(*                                                                         *)
(* Distances.  The source computes  (diff * 0.0343) / 2.0  in double      *)
(* precision.  The model keeps the exact rational  diff * 343 / 20000  as *)
(* its numerator over DIST_SCALE; the thresholds 400 and 128 are not      *)
(* multiples of 343/20000, so rounding of the double cannot move a value  *)
(* of the model across them.                                               *)
(***************************************************************************)
EXTENDS Integers, Sequences, FiniteSets, TLC

(***************************************************************************)
(* Program constants                                                       *)
(***************************************************************************)
QUEUE_TIME_LEN == 10
QUEUE_DISTANCE_LEN == 10
GPIO_IRQ_EDGE_FALL == 4
GPIO_IRQ_EDGE_RISE == 8
PULSE_TICKS == 1000
SLEEP_TICKS == 1000
TAKE_TICKS == 100
RECV_TICKS == 50
MAX_DISTANCE == 400
BAR_LIMIT == 400
BAR_CLAMP == 128
DISPLAY_WIDTH == 128
SPEED_NUM == 343
DIST_SCALE == 20000

(***************************************************************************)
(* Bounds of the model                                                     *)
(***************************************************************************)
\* edge interrupts in one run of Spec
MaxIrq == 4
\* saturation of the count of handshake signals not yet taken
MaxPending == 2
\* saturation of the measured tick intervals
TickCap == 3000

\* readings of the microsecond counter (window around its wrap)
ClockPoints == {-58, 1000, 1058, 24324}
\* readings 58 us apart, for echoes of equal length (SpecPaced)
PacedPoints == {1000, 1058, 1116}
\* event masks the handler is registered for
EventMasks == {GPIO_IRQ_EDGE_FALL, GPIO_IRQ_EDGE_RISE,
               GPIO_IRQ_EDGE_FALL + GPIO_IRQ_EDGE_RISE}

Min(a, b) == IF a < b THEN a ELSE b

VARIABLES
    clock,              \* microsecond counter (window representation)
    xQueueTime,         \* queue of echo_event_t
    xQueueDistance,     \* queue of double (numerators over DIST_SCALE)
    xSemaphoreTrigger,  \* binary semaphore: number of tokens held
    trig_pin,           \* level of TRIG_PIN
    trigPc,             \* trigger_task: "start", "hold", "low", "give", "sleep"
    trigDelay,          \* trigger_task: remaining ticks of its vTaskDelay
    t_rising,           \* echo_task local
    have_rising,        \* echo_task local
    oledPc,             \* oled_task: "take", "recv", "shown"
    oledWait,           \* oled_task: remaining ticks of its bounded wait
    got,                \* oled_task: result of xQueueReceive
    distance,           \* oled_task local
    screen,             \* what the last gfx_show put on the display
    \* ---- observers (no statement of the program reads them) ----
    irqCount,           \* edge interrupts so far (Spec only)
    isrDropped,         \* the handler has found xQueueTime full
    lastRising,         \* timestamp of the last Rising event echo_task received
    lastPub,            \* elapsed time and value of the last sample published,
                        \* and whether the pair before it had the same elapsed time
    pubInCycle,         \* a sample was queued since the current pulse began
    semCur,             \* the pending handshake belongs to the current pulse
    oledCur,            \* the handshake oled_task took belongs to the current pulse
    givesPending,       \* signals since the last successful take (saturating)
    renderCount,        \* renders since the last successful take (saturating)
    highTicks,          \* ticks TRIG_PIN has been high in this pulse
    lastHigh,           \* width of the last completed pulse, -1 before it
    sinceGive,          \* ticks since the last handshake signal, -1 before it
    lastPeriod          \* ticks between the last two signals, -1 before them

vars == << clock, xQueueTime, xQueueDistance, xSemaphoreTrigger, trig_pin,
           trigPc, trigDelay, t_rising, have_rising, oledPc, oledWait, got,
           distance, screen, irqCount, isrDropped, lastRising, lastPub,
           pubInCycle,
           semCur, oledCur, givesPending, renderCount, highTicks, lastHigh,
           sinceGive, lastPeriod >>

echoVars == << t_rising, have_rising, lastRising, lastPub >>
trigVars == << trig_pin, trigPc, trigDelay, highTicks, lastHigh, sinceGive,
               lastPeriod >>
oledVars == << oledPc, oledWait, got, distance, screen, renderCount, oledCur >>

(***************************************************************************)
(* 64-bit unsigned order on the window representation                      *)
(***************************************************************************)
U64Less(a, b) == IF (a < 0) = (b < 0) THEN a < b ELSE a >= 0

(***************************************************************************)
(* FreeRTOS primitives as the program uses them                            *)
(***************************************************************************)
\* a send that makes room by discarding the oldest event
xQueueSendFromISR_Overwrite(q, item) ==
    IF Len(q) < QUEUE_TIME_LEN THEN Append(q, item)
    ELSE Append(Tail(q), item)

\* xQueueSendFromISR(xQueueTime, &evt, NULL): never blocks, fails when full
xQueueSendFromISR(q, item) ==
    IF Len(q) < QUEUE_TIME_LEN THEN Append(q, item) ELSE q

\* a send that makes room by discarding the oldest sample
xQueueSend_Overwrite(q, item) ==
    IF Len(q) < QUEUE_DISTANCE_LEN THEN Append(q, item)
    ELSE Append(Tail(q), item)

\* a send that replaces whatever the channel holds
xQueueSend_Replace(q, item) == << item >>

\* xQueueSend(xQueueDistance, &distance, 0): zero ticks to wait, fails when full
xQueueSend(q, item) ==
    IF Len(q) < QUEUE_DISTANCE_LEN THEN Append(q, item) ELSE q

\* a give on a counting semaphore
xSemaphoreGive_Counting(s) == s + 1

\* xSemaphoreGive on a semaphore made by xSemaphoreCreateBinary
xSemaphoreGive(s) == IF s < 1 THEN s + 1 ELSE s

(***************************************************************************)
(* echo_pin_callback                                                       *)
(***************************************************************************)
HasFlag(events, flag) == (events \div flag) % 2 = 1

\* the values evt.is_rising can hold after the if / else-if; with neither
\* flag set the field is left uninitialised
\* the polarity with the fall flag tested first
IsRisingOf_FallFirst(events) ==
    IF HasFlag(events, GPIO_IRQ_EDGE_FALL) THEN {FALSE}
    ELSE IF HasFlag(events, GPIO_IRQ_EDGE_RISE) THEN {TRUE}
    ELSE BOOLEAN

IsRisingOf(events) ==
    IF HasFlag(events, GPIO_IRQ_EDGE_RISE) THEN {TRUE}
    ELSE IF HasFlag(events, GPIO_IRQ_EDGE_FALL) THEN {FALSE}
    ELSE BOOLEAN

echo_pin_callback(events) ==
    /\ \E r \in IsRisingOf(events) :
          xQueueTime' = xQueueSendFromISR(xQueueTime,
                            [is_rising |-> r, timestamp |-> clock])
    /\ isrDropped' = (isrDropped \/ Len(xQueueTime) >= QUEUE_TIME_LEN)
    /\ UNCHANGED << clock, xQueueDistance, xSemaphoreTrigger, pubInCycle,
                    semCur, givesPending >>
    /\ UNCHANGED << echoVars, trigVars, oledVars >>

\* an edge interrupt, at most MaxIrq of them in a run
Irq ==
    /\ irqCount < MaxIrq
    /\ irqCount' = irqCount + 1
    /\ \E events \in EventMasks : echo_pin_callback(events)

\* an edge interrupt of a burst of any length
IrqBurst ==
    /\ UNCHANGED irqCount
    /\ \E events \in EventMasks : echo_pin_callback(events)

\* an edge interrupt that finds the event channel empty (edges no faster
\* than echo_task handles them), any number of them
IrqPaced ==
    /\ xQueueTime = << >>
    /\ UNCHANGED irqCount
    /\ \E events \in EventMasks : echo_pin_callback(events)

\* the microsecond counter advances to a reading of the given set
ClockAdvanceIn(points) ==
    /\ \E t \in points : t > clock /\ clock' = t
    /\ UNCHANGED << xQueueTime, xQueueDistance, xSemaphoreTrigger, irqCount,
                    isrDropped, pubInCycle, semCur, givesPending >>
    /\ UNCHANGED << echoVars, trigVars, oledVars >>

ClockAdvancePaced == ClockAdvanceIn(PacedPoints)

\* the microsecond counter advances
ClockAdvance ==
    /\ \E t \in ClockPoints : t > clock /\ clock' = t
    /\ UNCHANGED << xQueueTime, xQueueDistance, xSemaphoreTrigger, irqCount,
                    isrDropped, pubInCycle, semCur, givesPending >>
    /\ UNCHANGED << echoVars, trigVars, oledVars >>

(***************************************************************************)
(* echo_task: one iteration of its loop                                    *)
(***************************************************************************)
\* absolute_time_diff_us(from, to), stored in a uint64_t
absolute_time_diff_us(from, to) == to - from

\* the conversion without the division by two (one-way time of flight)
Distance_NoHalf(diff) == diff * SPEED_NUM * 2

\* a distance averaged with the sample published before it
Distance_Smoothed(diff) == (diff * SPEED_NUM + lastPub.value) \div 2

\* (diff * 0.0343) / 2.0, as a numerator over DIST_SCALE
Distance(diff) == diff * SPEED_NUM

\* a Rising event that is ignored while a rising timestamp is held
StoreRising_KeepFirst(old, ts) == IF have_rising THEN old ELSE ts

\* t_rising after a Rising event
StoreRising(old, ts) == ts

\* an echo_task without the have_rising test: every Falling event is
\* paired with whatever t_rising holds
echo_task_PairsLoneFalling ==
    /\ xQueueTime # << >>
    /\ LET evt == Head(xQueueTime) IN
       /\ xQueueTime' = Tail(xQueueTime)
       /\ IF evt.is_rising
          THEN /\ t_rising' = StoreRising(t_rising, evt.timestamp)
               /\ have_rising' = TRUE
               /\ lastRising' = evt.timestamp
               /\ UNCHANGED << xQueueDistance, pubInCycle, lastPub >>
          ELSE LET diff == absolute_time_diff_us(t_rising, evt.timestamp) IN
               /\ have_rising' = FALSE
               /\ xQueueDistance' = xQueueSend(xQueueDistance, Distance(diff))
               /\ pubInCycle' = (pubInCycle
                                  \/ Len(xQueueDistance) < QUEUE_DISTANCE_LEN)
               /\ UNCHANGED << t_rising, lastRising, lastPub >>
    /\ UNCHANGED << clock, xSemaphoreTrigger, irqCount, isrDropped, semCur,
                    givesPending >>
    /\ UNCHANGED << trigVars, oledVars >>

\* the loop body of echo_task for one received event
echo_task ==
    /\ xQueueTime # << >>
    /\ LET evt == Head(xQueueTime) IN
       /\ xQueueTime' = Tail(xQueueTime)
       /\ IF evt.is_rising
          THEN /\ t_rising' = StoreRising(t_rising, evt.timestamp)
               /\ have_rising' = TRUE
               /\ lastRising' = evt.timestamp
               /\ UNCHANGED << xQueueDistance, pubInCycle, lastPub >>
          ELSE IF have_rising
          THEN LET diff == absolute_time_diff_us(t_rising, evt.timestamp) IN
               /\ have_rising' = FALSE
               /\ xQueueDistance' = xQueueSend(xQueueDistance, Distance(diff))
               /\ pubInCycle' = (pubInCycle
                                  \/ Len(xQueueDistance) < QUEUE_DISTANCE_LEN)
               /\ lastPub' = [elapsed |-> evt.timestamp - lastRising,
                              value |-> Distance(diff),
                              before |-> IF lastPub.elapsed
                                            = evt.timestamp - lastRising
                                         THEN lastPub.value ELSE -1]
               /\ UNCHANGED << t_rising, lastRising >>
          ELSE UNCHANGED << t_rising, have_rising, lastRising,
                            xQueueDistance, pubInCycle, lastPub >>
    /\ UNCHANGED << clock, xSemaphoreTrigger, irqCount, isrDropped, semCur,
                    givesPending >>
    /\ UNCHANGED << trigVars, oledVars >>

(***************************************************************************)
(* trigger_task: the statements of its loop                                *)
(***************************************************************************)
\* gpio_put(TRIG_PIN, 1); vTaskDelay(pdMS_TO_TICKS(1000)) begins
TrigHigh ==
    /\ trigPc = "start"
    /\ trig_pin' = 1
    /\ trigPc' = "hold"
    /\ trigDelay' = PULSE_TICKS
    /\ highTicks' = 0
    /\ pubInCycle' = FALSE
    /\ semCur' = FALSE
    /\ oledCur' = FALSE
    /\ UNCHANGED << clock, xQueueTime, xQueueDistance, xSemaphoreTrigger,
                    irqCount, isrDropped, givesPending, lastHigh, sinceGive,
                    lastPeriod >>
    /\ UNCHANGED << echoVars, oledPc, oledWait, got, distance, screen,
                    renderCount >>

\* the delay of the pulse has run out
TrigHoldDone ==
    /\ trigPc = "hold"
    /\ trigDelay = 0
    /\ trigPc' = "low"
    /\ UNCHANGED << clock, xQueueTime, xQueueDistance, xSemaphoreTrigger,
                    trig_pin, trigDelay, irqCount, isrDropped, pubInCycle,
                    semCur, givesPending, highTicks, lastHigh, sinceGive,
                    lastPeriod >>
    /\ UNCHANGED << echoVars, oledVars >>

\* gpio_put(TRIG_PIN, 0)
TrigLow ==
    /\ trigPc = "low"
    /\ trig_pin' = 0
    /\ lastHigh' = highTicks
    /\ trigPc' = "give"
    /\ UNCHANGED << clock, xQueueTime, xQueueDistance, xSemaphoreTrigger,
                    trigDelay, irqCount, isrDropped, pubInCycle, semCur,
                    givesPending, highTicks, sinceGive, lastPeriod >>
    /\ UNCHANGED << echoVars, oledVars >>

\* xSemaphoreGive(xSemaphoreTrigger); vTaskDelay(pdMS_TO_TICKS(1000)) begins
TrigGive ==
    /\ trigPc = "give"
    /\ xSemaphoreTrigger' = xSemaphoreGive(xSemaphoreTrigger)
    /\ trigPc' = "sleep"
    /\ trigDelay' = SLEEP_TICKS
    /\ semCur' = TRUE
    /\ givesPending' = Min(givesPending + 1, MaxPending)
    /\ lastPeriod' = sinceGive
    /\ sinceGive' = 0
    /\ UNCHANGED << clock, xQueueTime, xQueueDistance, trig_pin, irqCount,
                    isrDropped, pubInCycle, highTicks, lastHigh >>
    /\ UNCHANGED << echoVars, oledVars >>

\* the sleep has run out: back to the top of while (1)
TrigSleepDone ==
    /\ trigPc = "sleep"
    /\ trigDelay = 0
    /\ trigPc' = "start"
    /\ UNCHANGED << clock, xQueueTime, xQueueDistance, xSemaphoreTrigger,
                    trig_pin, trigDelay, irqCount, isrDropped, pubInCycle,
                    semCur, givesPending, highTicks, lastHigh, sinceGive,
                    lastPeriod >>
    /\ UNCHANGED << echoVars, oledVars >>

trigger_task == TrigHigh \/ TrigHoldDone \/ TrigLow \/ TrigGive \/ TrigSleepDone

(***************************************************************************)
(* oled_task: the statements of its loop                                   *)
(***************************************************************************)
Iniciando == "Iniciando..."
SensorFalhou == "Sensor Falhou!"
FalhaMedir == "Falha ao medir Distancia"
DistFmt == "Dist: %.2f cm"
NoLine == -1

\* the range test made against the width of the display
OutOfRange_Width(d) == d > DISPLAY_WIDTH * DIST_SCALE

\* distance > 400
OutOfRange(d) == d > MAX_DISTANCE * DIST_SCALE

\* int bar_length = (int)distance; if (bar_length > 400) bar_length = 128;
BarLength(d) ==
    LET bar_length == d \div DIST_SCALE
    IN  IF bar_length > BAR_LIMIT THEN BAR_CLAMP ELSE bar_length

\* the three clear / draw / show sequences
RenderTimeout ==
    [text |-> SensorFalhou, value |-> 0, line |-> NoLine,
     calls |-> << "gfx_clear_buffer", "gfx_draw_string", "gfx_show" >>]

\* a reading drawn over the previous frame, the buffer not cleared first
RenderReading_NoClear(d) ==
    IF OutOfRange(d)
    THEN [text |-> FalhaMedir, value |-> 0, line |-> NoLine,
          calls |-> << "gfx_clear_buffer", "gfx_draw_string", "gfx_show" >>]
    ELSE [text |-> DistFmt, value |-> d, line |-> BarLength(d),
          calls |-> << "gfx_draw_string", "gfx_draw_line", "gfx_show" >>]

RenderReading(d) ==
    IF OutOfRange(d)
    THEN [text |-> FalhaMedir, value |-> 0, line |-> NoLine,
          calls |-> << "gfx_clear_buffer", "gfx_draw_string", "gfx_show" >>]
    ELSE [text |-> DistFmt, value |-> d, line |-> BarLength(d),
          calls |-> << "gfx_clear_buffer", "gfx_draw_string",
                       "gfx_draw_line", "gfx_show" >>]

\* xSemaphoreTake(xSemaphoreTrigger, 100 ms) == pdTRUE; distance = 0.0;
\* xQueueReceive(xQueueDistance, &distance, 50 ms) begins
OledTake ==
    /\ oledPc = "take"
    /\ xSemaphoreTrigger > 0
    /\ xSemaphoreTrigger' = xSemaphoreTrigger - 1
    /\ givesPending' = 0
    /\ oledCur' = semCur
    /\ renderCount' = 0
    /\ distance' = 0
    /\ oledPc' = "recv"
    /\ oledWait' = RECV_TICKS
    /\ UNCHANGED << clock, xQueueTime, xQueueDistance, irqCount, isrDropped,
                    pubInCycle, semCur, got, screen >>
    /\ UNCHANGED << echoVars, trigVars >>

\* a handshake wait whose timeout is not told apart from a take
OledTakeTimeout_FallsThrough ==
    /\ oledPc = "take"
    /\ xSemaphoreTrigger = 0
    /\ oledWait = 0
    /\ oledPc' = "recv"
    /\ oledWait' = RECV_TICKS
    /\ distance' = 0
    /\ UNCHANGED << clock, xQueueTime, xQueueDistance, xSemaphoreTrigger,
                    irqCount, isrDropped, pubInCycle, semCur, givesPending,
                    got, screen, renderCount, oledCur >>
    /\ UNCHANGED << echoVars, trigVars >>

\* xSemaphoreTake times out: the loop starts over, nothing is drawn
OledTakeTimeout ==
    /\ oledPc = "take"
    /\ xSemaphoreTrigger = 0
    /\ oledWait = 0
    /\ oledWait' = TAKE_TICKS
    /\ UNCHANGED << clock, xQueueTime, xQueueDistance, xSemaphoreTrigger,
                    irqCount, isrDropped, pubInCycle, semCur, givesPending,
                    oledPc, got, distance, screen, renderCount, oledCur >>
    /\ UNCHANGED << echoVars, trigVars >>

\* xQueueReceive returns pdTRUE; one of the two readings is drawn
OledRecv ==
    /\ oledPc = "recv"
    /\ xQueueDistance # << >>
    /\ distance' = Head(xQueueDistance)
    /\ xQueueDistance' = Tail(xQueueDistance)
    /\ got' = TRUE
    /\ screen' = RenderReading(Head(xQueueDistance))
    /\ renderCount' = Min(renderCount + 1, 2)
    /\ oledPc' = "shown"
    /\ UNCHANGED << clock, xQueueTime, xSemaphoreTrigger, irqCount,
                    isrDropped, pubInCycle, semCur, givesPending, oledWait,
                    oledCur >>
    /\ UNCHANGED << echoVars, trigVars >>

\* a wait for the sample with portMAX_DELAY: it never times out
OledRecvTimeout_Forever ==
    /\ oledPc = "recv"
    /\ xQueueDistance = << >>
    /\ oledWait < 0
    /\ UNCHANGED vars

\* a timeout that leaves the previous frame on the display
OledRecvTimeout_KeepsScreen ==
    /\ oledPc = "recv"
    /\ xQueueDistance = << >>
    /\ oledWait = 0
    /\ got' = FALSE
    /\ renderCount' = Min(renderCount + 1, 2)
    /\ oledPc' = "shown"
    /\ UNCHANGED << clock, xQueueTime, xQueueDistance, xSemaphoreTrigger,
                    irqCount, isrDropped, pubInCycle, semCur, givesPending,
                    oledWait, distance, oledCur, screen >>
    /\ UNCHANGED << echoVars, trigVars >>

\* xQueueReceive times out after 50 ms; "Sensor Falhou!" is drawn
OledRecvTimeout ==
    /\ oledPc = "recv"
    /\ xQueueDistance = << >>
    /\ oledWait = 0
    /\ got' = FALSE
    /\ screen' = RenderTimeout
    /\ renderCount' = Min(renderCount + 1, 2)
    /\ oledPc' = "shown"
    /\ UNCHANGED << clock, xQueueTime, xQueueDistance, xSemaphoreTrigger,
                    irqCount, isrDropped, pubInCycle, semCur, givesPending,
                    oledWait, distance, oledCur >>
    /\ UNCHANGED << echoVars, trigVars >>

\* a loop that goes back to the wait for a sample, not to the handshake
OledLoop_SkipsTake ==
    /\ oledPc = "shown"
    /\ oledPc' = "recv"
    /\ oledWait' = RECV_TICKS
    /\ UNCHANGED << clock, xQueueTime, xQueueDistance, xSemaphoreTrigger,
                    irqCount, isrDropped, pubInCycle, semCur, givesPending,
                    got, distance, screen, renderCount, oledCur >>
    /\ UNCHANGED << echoVars, trigVars >>

\* gfx_show has returned: back to xSemaphoreTake with its 100 ms bound
OledLoop ==
    /\ oledPc = "shown"
    /\ oledPc' = "take"
    /\ oledWait' = TAKE_TICKS
    /\ UNCHANGED << clock, xQueueTime, xQueueDistance, xSemaphoreTrigger,
                    irqCount, isrDropped, pubInCycle, semCur, givesPending,
                    got, distance, screen, renderCount, oledCur >>
    /\ UNCHANGED << echoVars, trigVars >>

oled_task == OledTake \/ OledTakeTimeout \/ OledRecv \/ OledRecvTimeout
             \/ OledLoop

(***************************************************************************)
(* The scheduler tick.  Time passes only while trigger_task is inside a   *)
(* vTaskDelay (the statements between its delays take far less than one   *)
(* tick) and jumps to the next moment a delay or a bounded wait runs out. *)
(* oled_task may stay in gfx_show (the transfer to the display) for any   *)
(* number of ticks.                                                        *)
(***************************************************************************)
OledBlocked == oledPc \in {"take", "recv"}

Tick ==
    /\ trigPc \in {"hold", "sleep"}
    /\ trigDelay > 0
    /\ OledBlocked => oledWait > 0
    /\ LET d == IF OledBlocked THEN Min(trigDelay, oledWait) ELSE trigDelay IN
       /\ trigDelay' = trigDelay - d
       /\ oledWait' = IF OledBlocked THEN oledWait - d ELSE oledWait
       /\ highTicks' = IF trig_pin = 1 THEN Min(highTicks + d, TickCap)
                       ELSE highTicks
       /\ sinceGive' = IF sinceGive >= 0 THEN Min(sinceGive + d, TickCap)
                       ELSE sinceGive
    /\ UNCHANGED << clock, xQueueTime, xQueueDistance, xSemaphoreTrigger,
                    trig_pin, trigPc, irqCount, isrDropped, pubInCycle,
                    semCur, givesPending, lastHigh, lastPeriod >>
    /\ UNCHANGED << echoVars, oledPc, got, distance, screen, renderCount,
                    oledCur >>

(***************************************************************************)
(* Specifications                                                          *)
(***************************************************************************)
Init ==
    /\ clock \in ClockPoints
    /\ xQueueTime = << >>
    /\ xQueueDistance = << >>
    /\ xSemaphoreTrigger = 0
    /\ trig_pin = 0
    /\ trigPc = "start"
    /\ trigDelay = 0
    /\ t_rising = 0
    /\ have_rising = FALSE
    /\ oledPc = "take"
    /\ oledWait = TAKE_TICKS
    /\ got = FALSE
    /\ distance = 0
    /\ screen = [text |-> Iniciando, value |-> 0, line |-> NoLine,
                 calls |-> << "gfx_clear_buffer", "gfx_draw_string",
                              "gfx_show" >>]
    /\ irqCount = 0
    /\ isrDropped = FALSE
    /\ lastRising = 0
    /\ lastPub = [elapsed |-> -1, value |-> 0, before |-> -1]
    /\ pubInCycle = FALSE
    /\ semCur = FALSE
    /\ oledCur = FALSE
    /\ givesPending = 0
    /\ renderCount = 0
    /\ highTicks = 0
    /\ lastHigh = -1
    /\ sinceGive = -1
    /\ lastPeriod = -1

\* the whole program, with at most MaxIrq edge interrupts
Next == Irq \/ ClockAdvance \/ echo_task \/ trigger_task \/ oled_task \/ Tick

Spec == Init /\ [][Next]_vars

\* a burst of edges inside one reading of the microsecond counter: the
\* handler against echo_task, with no bound on the number of interrupts
NextBurst == IrqBurst \/ echo_task

SpecBurst == Init /\ [][NextBurst]_vars

\* the handler and echo_task alone, edges paced so that each event is
\* handled before the next arrives and echoes 58 us long can repeat; no
\* task takes samples out of the result channel
NextPaced == IrqPaced \/ ClockAdvancePaced \/ echo_task

SpecPaced == Init /\ [][NextPaced]_vars

(***************************************************************************)
(* Properties                                                              *)
(***************************************************************************)
\* a step of echo_task: the head of the event queue is taken
EchoStep == xQueueTime # << >> /\ xQueueTime' = Tail(xQueueTime)

\* a sample is appended to the result channel in this step
Published == Len(xQueueDistance') = Len(xQueueDistance) + 1

\* oled_task leaves its wait for a sample in this step
RecvReturns == oledPc = "recv" /\ oledPc' # "recv"

\* C1: echo_task publishes a sample exactly when a Falling event arrives in
\* the Armed state with a non-negative elapsed time falling_ts - rising_ts
\* (rising_ts the last Rising received), one sample per such pair, and
\* publishes nothing in every other case.
C1_PublishIffMatchedPair ==
    [][EchoStep =>
         LET evt == Head(xQueueTime) IN
         /\ Len(xQueueDistance') \in
                {Len(xQueueDistance), Len(xQueueDistance) + 1}
         /\ Published <=> /\ have_rising
                          /\ ~evt.is_rising
                          /\ ~U64Less(evt.timestamp, lastRising)]_vars

\* C2: when oled_task has taken the handshake of the current pulse and no
\* sample has been produced since that pulse began, what it renders is the
\* sensor-timeout frame, once, and never a reading.
C2_TimeoutNeverStale ==
    (oledPc = "shown" /\ oledCur /\ ~pubInCycle)
        => (screen.text = SensorFalhou /\ renderCount = 1)

\* C2 as amended: when the wait for a sample returns with the result
\* channel empty, the 50 ms have run out and the sensor-timeout frame is
\* rendered, once; when the channel holds a sample, whatever pulse it comes
\* from, the oldest queued sample is taken and rendered as a reading, once.
C2_TimeoutOnlyWhenEmpty ==
    [][RecvReturns =>
         /\ renderCount' = 1
         /\ IF xQueueDistance = << >>
            THEN /\ oledWait = 0
                 /\ screen'.text = SensorFalhou
                 /\ xQueueDistance' = << >>
            ELSE /\ screen'.text \in {DistFmt, FalhaMedir}
                 /\ distance' = Head(xQueueDistance)
                 /\ xQueueDistance' = Tail(xQueueDistance)]_vars

\* C2 witness: the handshake of the current pulse was taken, no sample was
\* produced since the pulse began, and the sensor-timeout frame is shown.
C2_Witness ==
    /\ oledPc = "shown"
    /\ oledCur
    /\ ~pubInCycle
    /\ ~got
    /\ screen.text = SensorFalhou
    /\ renderCount = 1

\* C3: the bar of a valid reading never ends beyond the display width.
C3_BarWithinDisplay ==
    screen.text = DistFmt => screen.line <= DISPLAY_WIDTH

\* C4: after each handshake taken oled_task has rendered exactly one frame:
\* sensor-timeout when no sample was received, out-of-range when the sample
\* is above 400 cm, the reading with its bar when it is at most 400 cm.
C4_ThreeOutcomes ==
    oledPc = "shown" =>
        /\ renderCount = 1
        /\ screen.text \in {SensorFalhou, FalhaMedir, DistFmt}
        /\ (screen.text = SensorFalhou) <=> ~got
        /\ (screen.text = FalhaMedir) <=>
               (got /\ distance > 400 * DIST_SCALE)
        /\ (screen.text = DistFmt) <=>
               (got /\ distance <= 400 * DIST_SCALE)
        /\ screen.text = DistFmt =>
               (screen.value = distance /\ screen.line # NoLine)
        /\ screen.text # DistFmt => screen.line = NoLine

\* C4 witness: a sample above 400 cm was received and the out-of-range
\* frame is shown.
C4_Witness ==
    /\ oledPc = "shown"
    /\ got
    /\ distance > 400 * DIST_SCALE
    /\ screen.text = FalhaMedir
    /\ renderCount = 1

\* C5: the handshake holds at most one signal; it is pending exactly when
\* trigger_task has signalled at least once since the last successful take,
\* however many times; and trigger_task can always complete the give.
C5_HandshakeCoalesces ==
    /\ xSemaphoreTrigger \in {0, 1}
    /\ (xSemaphoreTrigger = 1) <=> (givesPending > 0)
    /\ trigPc = "give" => ENABLED TrigGive

\* C5 witness: two signals were given before oled_task took one, and one
\* signal is pending.
C5_Witness == givesPending >= 2 /\ xSemaphoreTrigger = 1

\* C6: the handler can run in every state; the event channel never holds
\* more than 10 events; a step taken with the channel full leaves it as it
\* was (the handler dropped its event) or removes its head (echo_task); a
\* step taken with room left appends one event stamped with the counter.
C6_IsrNeverBlocksAndDrops ==
    [][/\ ENABLED IrqBurst
       /\ Len(xQueueTime) <= QUEUE_TIME_LEN
       /\ Len(xQueueTime') <= QUEUE_TIME_LEN
       /\ Len(xQueueTime) = QUEUE_TIME_LEN =>
              xQueueTime' \in {xQueueTime, Tail(xQueueTime)}
       /\ Len(xQueueTime) < QUEUE_TIME_LEN =>
              \/ EchoStep
              \/ \E r \in BOOLEAN :
                    xQueueTime' = Append(xQueueTime,
                                     [is_rising |-> r, timestamp |-> clock])
       /\ isrDropped' /\ ~isrDropped =>
              (Len(xQueueTime) = QUEUE_TIME_LEN /\ xQueueTime' = xQueueTime)
      ]_vars

\* C6 witness: the handler ran with the channel full, and the channel holds
\* its 10 events.
C6_Witness == isrDropped /\ Len(xQueueTime) = QUEUE_TIME_LEN

\* C7: a Falling event received in the Armed state with a timestamp below
\* the stored rising timestamp publishes nothing and leaves echo_task Idle.
C7_NegativeElapsedDiscarded ==
    [][(/\ EchoStep
        /\ have_rising
        /\ ~Head(xQueueTime).is_rising
        /\ U64Less(Head(xQueueTime).timestamp, t_rising))
       => (xQueueDistance' = xQueueDistance /\ ~have_rising')]_vars

\* C8: for a Falling event received in the Armed state with
\* falling_ts >= rising_ts, rising_ts the last Rising received, the sample
\* published is (falling_ts - rising_ts) * 0.0343 / 2 cm, that is
\* (falling_ts - rising_ts) * 343 in units of 1/20000 cm.
C8_DistanceFormula ==
    [][(/\ EchoStep
        /\ have_rising
        /\ ~Head(xQueueTime).is_rising
        /\ ~U64Less(Head(xQueueTime).timestamp, lastRising)
        /\ Len(xQueueDistance) < QUEUE_DISTANCE_LEN)
       => xQueueDistance' =
              Append(xQueueDistance,
                     (Head(xQueueTime).timestamp - lastRising) * 343)]_vars

\* C8 witness: rising at 1000 us, falling at 1058 us: the sample published
\* last is 58 * 343 / 20000 = 0.9947 cm.
C8_Witness ==
    /\ xQueueDistance # << >>
    /\ xQueueDistance[Len(xQueueDistance)] = 19894
    /\ lastRising = 1000
    /\ t_rising = 1000
    /\ ~have_rising

\* C9: two consecutive handshake signals are 1000 ticks (one second) apart.
C9_PeriodOneSecond == lastPeriod >= 0 => lastPeriod = 1000

\* C10: a completed pulse has kept the trigger output high for at most one
\* tick, and the handshake is signalled with the output low.
C10_PulseWidth ==
    /\ lastHigh >= 0 => lastHigh <= 1
    /\ trigPc = "give" => trig_pin = 0

\* the handshake wait of oled_task times out in this step
TakeTimesOut ==
    /\ oledPc = "take"
    /\ oledPc' = "take"
    /\ oledWait = 0
    /\ oledWait' = TAKE_TICKS

\* oled_task takes a sample out of the result channel in this step
Dequeues == Len(xQueueDistance') < Len(xQueueDistance)

\* C11: both waits of oled_task are bounded (100 ticks for the handshake,
\* 50 for the sample) and, once the bound has run out, the wait returns
\* whether or not a handshake or a sample is there; from gfx_show the loop
\* goes on; some step of oled_task, of trigger_task or of the tick is
\* always possible; and an iteration whose handshake wait times out draws
\* nothing and takes no sample.
C11_BoundedWaits ==
    [][/\ oledPc = "take" =>
              /\ oledWait \in 0..TAKE_TICKS
              /\ oledWait = 0 => ENABLED (OledTake \/ OledTakeTimeout)
       /\ oledPc = "recv" =>
              /\ oledWait \in 0..RECV_TICKS
              /\ oledWait = 0 => ENABLED (OledRecv \/ OledRecvTimeout)
       /\ oledPc = "shown" => ENABLED OledLoop
       /\ ENABLED (oled_task \/ trigger_task \/ Tick)
       /\ TakeTimesOut =>
              /\ screen' = screen
              /\ renderCount' = renderCount
              /\ xQueueDistance' = xQueueDistance
      ]_vars

\* C11 witness: no handshake was ever signalled and no sample published,
\* a handshake wait has timed out, oled_task is back at the start of its
\* loop and the display still shows the start-up frame.
C11_Witness ==
    /\ oledPc = "take"
    /\ oledWait = TAKE_TICKS
    /\ highTicks >= TAKE_TICKS
    /\ sinceGive = -1
    /\ xSemaphoreTrigger = 0
    /\ xQueueDistance = << >>
    /\ lastPub.elapsed = -1
    /\ renderCount = 0
    /\ screen.text = Iniciando

\* C12: oled_task enters its wait for a sample only by taking the
\* handshake, and it takes a sample or draws a frame only from that wait,
\* as the first render since the take.
C12_HandshakeBeforeSample ==
    [][/\ (oledPc # "recv" /\ oledPc' = "recv") =>
              (oledPc = "take" /\ xSemaphoreTrigger = 1
                   /\ xSemaphoreTrigger' = 0)
       /\ (Dequeues \/ screen' # screen \/ renderCount' > renderCount) =>
              (oledPc = "recv" /\ oledPc' = "shown" /\ renderCount = 0)
      ]_vars

\* C12 witness: the handshake was taken and consumed, and the sample
\* received after it is on the display.
C12_Witness ==
    /\ oledPc = "shown"
    /\ got
    /\ screen.text = DistFmt
    /\ screen.value = distance
    /\ renderCount = 1
    /\ xSemaphoreTrigger = 0
    /\ givesPending = 0

\* C13: a receive removes exactly the sample it returns, so no sample is
\* returned twice, and between two takes of the handshake at most one
\* sample is removed.
C13_OneSamplePerHandshake ==
    [][/\ Dequeues =>
              /\ xQueueDistance' = Tail(xQueueDistance)
              /\ distance' = Head(xQueueDistance)
              /\ renderCount = 0
              /\ renderCount' = 1
       /\ (RecvReturns /\ got') => Dequeues
       /\ renderCount' < renderCount =>
              (oledPc = "take" /\ xSemaphoreTrigger' = xSemaphoreTrigger - 1)
       /\ renderCount' <= 1
      ]_vars

\* C13 witness: two samples were queued, one handshake was taken, one
\* sample was received and the other is still in the channel.
C13_Witness ==
    /\ oledPc = "shown"
    /\ got
    /\ renderCount = 1
    /\ Len(xQueueDistance) = 1

\* C14: a Falling event received while echo_task holds no rising timestamp
\* publishes nothing and leaves echo_task Idle, its stored timestamp
\* untouched.
C14_LoneFallingDiscarded ==
    [][(EchoStep /\ ~have_rising /\ ~Head(xQueueTime).is_rising) =>
           /\ xQueueDistance' = xQueueDistance
           /\ ~have_rising'
           /\ t_rising' = t_rising
           /\ lastPub' = lastPub
      ]_vars

\* C14 witness: the only interrupt so far was handled by echo_task without
\* arming it (so it was a Falling event) and nothing has been published.
C14_Witness ==
    /\ irqCount = 1
    /\ ~isrDropped
    /\ xQueueTime = << >>
    /\ ~have_rising
    /\ t_rising = 0
    /\ xQueueDistance = << >>
    /\ lastPub.elapsed = -1
    /\ renderCount = 0

\* C15: every frame on the display was produced by one sequence of calls
\* that begins with the only gfx_clear_buffer, ends with the only gfx_show
\* and has between them only the draws of that one outcome: the text, and
\* the bar exactly for a valid reading.
C15_ClearDrawFlush ==
    LET c == screen.calls
        n == Len(c)
    IN  /\ n >= 3
        /\ c[1] = "gfx_clear_buffer"
        /\ c[n] = "gfx_show"
        /\ c[2] = "gfx_draw_string"
        /\ \A i \in 2..(n - 1) : c[i] \in {"gfx_draw_string", "gfx_draw_line"}
        /\ Cardinality({i \in 1..n : c[i] = "gfx_draw_string"}) = 1
        /\ Cardinality({i \in 1..n : c[i] = "gfx_draw_line"})
               = IF screen.text = DistFmt THEN 1 ELSE 0
        /\ (screen.line # NoLine) <=> (screen.text = DistFmt)

\* C15 witness: a valid reading is on the display, drawn by clear, text,
\* bar, show.
C15_Witness ==
    /\ oledPc = "shown"
    /\ got
    /\ screen.text = DistFmt
    /\ screen.calls = << "gfx_clear_buffer", "gfx_draw_string",
                         "gfx_draw_line", "gfx_show" >>

\* C16: a matched pair leaves echo_task Idle with its stored timestamp as
\* it was, and its sample depends on the pair alone: when the pair
\* published before it had the same elapsed time, the two samples are
\* equal.
C16_NoHiddenState ==
    [][(EchoStep /\ have_rising /\ ~Head(xQueueTime).is_rising) =>
           /\ ~have_rising'
           /\ t_rising' = t_rising
           /\ lastPub'.before >= 0 => lastPub'.value = lastPub'.before
      ]_vars

\* C16 witness: two pairs in a row, each 58 us long, have been published
\* and both samples are in the result channel.
C16_Witness ==
    /\ ~have_rising
    /\ lastPub.elapsed = 58
    /\ lastPub.before = lastPub.value
    /\ Len(xQueueDistance) >= 2
    /\ xQueueDistance[Len(xQueueDistance)] = lastPub.value
    /\ xQueueDistance[Len(xQueueDistance) - 1] = lastPub.value

\* C17: a Rising event received while Armed replaces the stored timestamp
\* by its own, leaves echo_task Armed and publishes nothing; and the
\* sample a Falling event publishes is computed from the last Rising
\* event received before it.
C17_RisingOverwrites ==
    [][/\ (EchoStep /\ have_rising /\ Head(xQueueTime).is_rising) =>
              /\ t_rising' = Head(xQueueTime).timestamp
              /\ have_rising'
              /\ xQueueDistance' = xQueueDistance
       /\ (EchoStep /\ ~Head(xQueueTime).is_rising /\ Published) =>
              xQueueDistance'[Len(xQueueDistance')]
                  = Distance(Head(xQueueTime).timestamp - lastRising)
       /\ have_rising => t_rising = lastRising
      ]_vars

\* C17 witness: echo_task is Armed with one timestamp, the next event is a
\* Rising with a later one, and the step of echo_task on it stores the
\* later one, stays Armed and publishes nothing.
C17_Witness ==
    /\ have_rising
    /\ xQueueTime # << >>
    /\ Head(xQueueTime).is_rising
    /\ Head(xQueueTime).timestamp > t_rising
    /\ ENABLED (/\ echo_task
                /\ have_rising'
                /\ t_rising' = Head(xQueueTime).timestamp
                /\ t_rising' # t_rising
                /\ xQueueDistance' = xQueueDistance)

\* C18: echo_task can take a step exactly when an event is waiting in the
\* event channel, whatever the result channel holds; and a sample computed
\* while the result channel holds QUEUE_DISTANCE_LEN samples is dropped:
\* the channel keeps its contents and echo_task goes Idle.
C18_PublishNeverBlocks ==
    [][/\ (xQueueTime # << >>) <=> ENABLED echo_task
       /\ Len(xQueueDistance) <= QUEUE_DISTANCE_LEN
       /\ (/\ EchoStep
           /\ have_rising
           /\ ~Head(xQueueTime).is_rising
           /\ Len(xQueueDistance) = QUEUE_DISTANCE_LEN) =>
              /\ xQueueDistance' = xQueueDistance
              /\ ~have_rising'
      ]_vars

\* C18 witness: the result channel holds 10 samples, the sample of the
\* last matched pair is not the newest of them (it was dropped), and
\* echo_task is Idle with the event channel emptied.
C18_Witness ==
    /\ Len(xQueueDistance) = QUEUE_DISTANCE_LEN
    /\ lastPub.elapsed > 0
    /\ lastPub.value # xQueueDistance[QUEUE_DISTANCE_LEN]
    /\ ~have_rising
    /\ xQueueTime = << >>

\* one invocation of the handler with the given flags, counted
IsrCall(events) ==
    /\ echo_pin_callback(events)
    /\ irqCount' = irqCount + 1

\* the event channel after an invocation with the given flags, as claimed:
\* one event more when there is room, Rising exactly when the rise flag is
\* set, stamped with the clock; no event more when there is none
IsrPushed(events) ==
    IF Len(xQueueTime) < QUEUE_TIME_LEN
    THEN Append(xQueueTime,
                [is_rising |-> HasFlag(events, GPIO_IRQ_EDGE_RISE),
                 timestamp |-> clock])
    ELSE xQueueTime

\* C19: in every state and for every combination of edge flags, an
\* invocation of the handler can run and has one outcome only: at most one
\* event pushed, a Rising when the rise flag is set (alone or with the fall
\* flag), a Falling when only the fall flag is set.
C19_OneEventPerInterrupt ==
    \A events \in EventMasks :
        /\ ENABLED IsrCall(events)
        /\ ~ENABLED (IsrCall(events) /\ xQueueTime' # IsrPushed(events))

\* C19 witness: one invocation has pushed one Rising event, and an
\* invocation with both flags set pushes one more Rising and nothing else.
C19_Witness ==
    /\ irqCount = 1
    /\ Len(xQueueTime) = 1
    /\ xQueueTime[1].is_rising
    /\ xQueueTime[1].timestamp = clock
    /\ ENABLED (/\ IsrCall(GPIO_IRQ_EDGE_RISE + GPIO_IRQ_EDGE_FALL)
                /\ Len(xQueueTime') = 2
                /\ xQueueTime'[2].is_rising)
    /\ ~ENABLED (/\ IsrCall(GPIO_IRQ_EDGE_RISE + GPIO_IRQ_EDGE_FALL)
                 /\ ~xQueueTime'[Len(xQueueTime')].is_rising)

\* C20: the result channel is first-in first-out and changes in two ways
\* only: echo_task appends one sample behind those waiting, which stay as
\* they are, and a receive of oled_task removes the oldest one, which is
\* the one it returns and renders; a sample not received stays queued.
C20_FifoOrder ==
    [][/\ \/ xQueueDistance' = xQueueDistance
          \/ /\ EchoStep
             /\ Len(xQueueDistance) < QUEUE_DISTANCE_LEN
             /\ Published
             /\ SubSeq(xQueueDistance', 1, Len(xQueueDistance))
                    = xQueueDistance
          \/ /\ RecvReturns
             /\ xQueueDistance # << >>
             /\ xQueueDistance' = Tail(xQueueDistance)
       /\ (RecvReturns /\ xQueueDistance # << >>) =>
              /\ got'
              /\ distance' = Head(xQueueDistance)
              /\ xQueueDistance' = Tail(xQueueDistance)
              /\ screen' = RenderReading(Head(xQueueDistance))
      ]_vars

\* C20 witness: two different samples were queued; oled_task has rendered
\* the older one and the newer one is still waiting behind it.
C20_Witness ==
    /\ oledPc = "shown"
    /\ got
    /\ renderCount = 1
    /\ Len(xQueueDistance) = 1
    /\ xQueueDistance[1] = lastPub.value
    /\ distance # xQueueDistance[1]
    /\ distance = Distance(58)
    /\ screen.value = distance

=============================================================================
